---- MODULE Spec2Model ----
(***************************************************************************)
(* Label-gating subsystem of spatial_data (src/spatial_data/la/label.py):  *)
(* the LabelAccessor methods that maintain the label registry              *)
(* (Layers.LABELS), the cell-label assignment table (the Features.LABELS   *)
(* column of Layers.OBS) and the gating graph persisted in the container's *)
(* attrs.                                                                   *)
(*                                                                         *)
(* The container (an xarray Dataset) is the record `obj`.  Every accessor  *)
(* method is an operator from the container and its arguments to a record  *)
(* [err, ret, self]: the exception class raised ("ok" when none), the      *)
(* container returned, and the container the accessor holds after the     *)
(* call (self._obj, which some methods write in place or rebind).  A run   *)
(* of the model is a chain of calls: after a successful call the next call *)
(* is made on the returned container, after a failed call on the container *)
(* the accessor still holds.  The exception raised by                     *)
(* `raise ValueError("... not found.")` is written "NotFound"; every other *)
(* exception by the name of its class.                                     *)
(***************************************************************************)
EXTENDS Integers, Sequences, FiniteSets, TLC

\* Bounds of the model.
NumCells == 2
MaxLabels == 2
MaxCalls == 4

\* The raw label vectors given to _format_labels: at most MaxVectorLen
\* entries, each in 0..MaxRawLabel.
MaxVectorLen == 3

MaxRawLabel == 4

\* Sample values the inputs are drawn from.
Cells == 1..NumCells
Names == {"T cells", "B cells"}
Channels == {"CD3", "CD8"}
IntensityKeys == {"_intensity"}
Thresholds == {1}

\* The intensity layer of the container: per channel, the intensity of each
\* cell.  The two channels order the cells in opposite directions, so that a
\* threshold gates a different set of cells on each, and on each channel one
\* cell has exactly the intensity of the threshold.
IntensityTable ==
  [ch \in Channels |->
     [c \in Cells |-> IF ch = "CD3" THEN c ELSE NumCells + 1 - c]]

\* Python's None.
None == "None"

VARIABLES
  obj,   \* the container the next call is made on (self._obj)
  last,  \* the last call: its name and its arguments, or that it raised
  calls  \* the number of calls made so far

vars == <<obj, last, calls>>

----------------------------------------------------------------------------
\* Generic helpers.

SeqToSet(s) == {s[i] : i \in 1..Len(s)}

Max(S) == CHOOSE x \in S : \A y \in S : y <= x

\* An argument that the code dispatches on with isinstance(x, int / str).
IntArg(i) == [kind |-> "int", v |-> i]
StrArg(s) == [kind |-> "str", v |-> s]
ListArg(l) == [kind |-> "list", v |-> l]
TupleArg(l) == [kind |-> "tuple", v |-> l]
FloatArg == [kind |-> "float", v |-> None]
SliceArg(start, stop) == [kind |-> "slice", start |-> start, stop |-> stop]

\* An argument left at None.
NoneArg == [kind |-> "none", v |-> None]

\* The outcome of a call that raised: nothing is returned.
Raise(exc, self) == [err |-> exc, ret |-> self, self |-> self]
Return(ret, self) == [err |-> "ok", ret |-> ret, self |-> self]

----------------------------------------------------------------------------
\* The label registry and the assignment table.

\* self._obj.coords[Dims.LABELS].values, in coordinate order.
LabelCoords(self) == [i \in 1..Len(self.labels) |-> self.labels[i].id]

LabelIds(self) == SeqToSet(LabelCoords(self))

\* _label_to_dict(Props.NAME): label id -> name, built in coordinate order,
\* a later entry of the comprehension overwriting an earlier one.
LabelToDict(self) ==
  [l \in LabelIds(self) |->
     self.labels[Max({i \in 1..Len(self.labels) : self.labels[i].id = l})].name]

\* labels_layer.loc[label, Props.NAME] needs the name property to be a
\* coordinate of Layers.LABELS.
HasNames(self) == self.hasLabels /\ self.hasNameProp

\* _label_to_dict(Props.NAME, reverse=True): {v: k for k, v in label_dict.items()},
\* a later label with the same name overwriting an earlier one.
LabelToDictReverse(self) ==
  LET d == LabelToDict(self)
      order == LabelCoords(self)
      names == {d[l] : l \in DOMAIN d}
  IN [n \in names |-> order[Max({i \in 1..Len(order) : d[order[i]] = n})]]
\* A filter that keeps every cell.
FilterCellsByLabelAll(self, items) == self.cells

\* _filter_cells_by_label(items): the cells whose label is one of items.
FilterCellsByLabel(self, items) == {c \in self.cells : self.obs[c] \in items}

\* _cells_to_label(include_unlabeled=True): label id -> cells, with key 0.
CellsToLabel(self) ==
  [l \in LabelIds(self) \cup {0} |-> FilterCellsByLabel(self, {l})]

----------------------------------------------------------------------------
\* The gating graph (a networkx DiGraph): adj maps each node to its successors,
\* attr maps each node to its attribute dictionary.

GraphProps ==
  {"channel", "threshold", "intensity_key", "override", "label_name",
   "label_id", "step", "num_cells"}

RootAttr ==
  [label_name |-> "Unlabeled", label_id |-> 0, channel |-> None,
   threshold |-> None, intensity_key |-> None, override |-> None, step |-> 0]

Nodes(g) == DOMAIN g.adj

Edges(g) == {e \in Nodes(g) \X Nodes(g) : e[2] \in g.adj[e[1]]}

\* nx.from_dict_of_dicts(d, create_using=nx.DiGraph): the keys and every
\* successor become nodes.
FromDictOfDicts(d) ==
  LET nodes == DOMAIN d \cup UNION {d[n] : n \in DOMAIN d}
  IN [n \in nodes |-> IF n \in DOMAIN d THEN d[n] ELSE {}]

\* get_gate_graph(pop=False): the single-root graph when nothing was
\* persisted, else the graph of attrs["graph"] with every other entry of
\* attrs set as a node attribute (nx.set_node_attributes skips unknown nodes).
GetGateGraph(self) ==
  IF "graph" \notin DOMAIN self.attrs
    THEN [adj |-> (0 :> {}), attr |-> (0 :> RootAttr)]
    ELSE LET adj == FromDictOfDicts(self.attrs["graph"])
             keys == DOMAIN self.attrs \ {"graph"}
         IN [adj |-> adj,
             attr |-> [n \in DOMAIN adj |->
                         [k \in {k \in keys : n \in DOMAIN self.attrs[k]} |->
                            self.attrs[k][n]]]]

\* get_gate_graph(pop): the graph returned and the container the call leaves.
\* Without a persisted graph the root-only graph is returned and attrs is not
\* touched; with pop=False nothing is removed; with pop=True "graph" is popped
\* and then every key that attrs still holds (lines 329-332).
GetGateGraphPop(self, pop) ==
  [graph |-> GetGateGraph(self),
   self |-> IF pop /\ "graph" \in DOMAIN self.attrs
              THEN [self EXCEPT !.attrs = [k \in {} |-> None]]
              ELSE self]

\* nx.get_node_attributes(graph, name): the nodes that carry the attribute.
GetNodeAttributes(g, name) ==
  [n \in {n \in Nodes(g) : name \in DOMAIN g.attr[n]} |-> g.attr[n][name]]
\* A step counter that counts the nodes of the graph.
NextStepByCount(g) ==
  Cardinality(Nodes(g))

\* max(nx.get_node_attributes(graph, "step").values()) + 1
NextStep(g) ==
  LET steps == GetNodeAttributes(g, "step")
  IN Max({steps[n] : n \in DOMAIN steps}) + 1

RECURSIVE ReachFrom(_, _, _)
ReachFrom(adj, frontier, seen) ==
  IF frontier = {} THEN seen
  ELSE LET nxt == UNION {adj[n] : n \in frontier} \ seen
       IN ReachFrom(adj, nxt, seen \cup nxt)

\* nx.descendants(graph, source): the nodes reachable from source, without it.
Descendants(g, source) == ReachFrom(g.adj, {source}, {source}) \ {source}

\* graph.add_node(n, **attr): a new node, or new attributes on an old one.
AddNode(g, n, attr) ==
  [adj |-> IF n \in Nodes(g) THEN g.adj ELSE g.adj @@ (n :> {}),
   attr |-> IF n \in Nodes(g)
              THEN [g.attr EXCEPT ![n] = attr @@ g.attr[n]]
              ELSE g.attr @@ (n :> attr)]

\* graph.add_edge(u, v): u and v become nodes when they are not.
AddEdge(g, u, v) ==
  LET missing == {u, v} \ Nodes(g)
      adj == g.adj @@ [n \in missing |-> {}]
      attr == g.attr @@ [n \in missing |-> [k \in {} |-> None]]
  IN [adj |-> [adj EXCEPT ![u] = @ \cup {v}], attr |-> attr]
\* A save that leaves the override flags out.
SaveGraphNoOverride(attrs, g) ==
  [k \in GraphProps \ {"override"} |-> GetNodeAttributes(g, k)]
    @@ ("graph" :> g.adj) @@ attrs

\* The attrs gate_label_type writes: the adjacency under "graph" and one
\* dictionary per node property.
SaveGraph(attrs, g) ==
  [k \in GraphProps |-> GetNodeAttributes(g, k)] @@ ("graph" :> g.adj) @@ attrs

----------------------------------------------------------------------------
\* add_label_type(name, color): the new label gets id 1 when the container has
\* no Layers.LABELS yet, else max(label ids) + 1.  The first branch merges a
\* zero Features.LABELS column into Layers.OBS, which xr.merge refuses when
\* the column is there with other values; max() of no labels raises.
AddLabelType(self, name) ==
  IF ~self.hasLabels
    THEN IF self.hasLabelFeature /\ \E c \in self.cells : self.obs[c] # 0
           THEN Raise("MergeError", self)
           ELSE Return([self EXCEPT !.hasLabels = TRUE,
                                    !.hasNameProp = TRUE,
                                    !.hasLabelFeature = TRUE,
                                    !.labels = <<[id |-> 1, name |-> name]>>,
                                    !.obs = [c \in self.cells |-> 0]],
                       self)
    ELSE IF LabelIds(self) = {}
           THEN Raise("ValueError", self)
           ELSE Return([self EXCEPT !.hasNameProp = TRUE,
                                    !.labels = Append(@, [id |-> Max(LabelIds(self)) + 1,
                                                          name |-> name])],
                       self)

----------------------------------------------------------------------------
\* A gate that also takes the cells at the threshold.
CellsGatedAtLeast(self, channel, threshold, intensity_key) ==
  {c \in self.cells : self.intensity[channel][c] >= threshold}

\* gate_label_type, lines 392-394: the cells whose intensity is above the threshold.
CellsGated(self, channel, threshold, intensity_key) ==
  {c \in self.cells : self.intensity[channel][c] > threshold}
\* A pool that, with override, is every cell of the container.
CellsAvailableOverrideAll(self, graph, override, parent) ==
  LET labeled_cells == CellsToLabel(self)
  IN IF override
       THEN IF parent \notin Nodes(graph)
              THEN [err |-> "NetworkXError", cells |-> {}]
              ELSE [err |-> "ok", cells |-> self.cells]
       ELSE IF parent \notin DOMAIN labeled_cells
              THEN [err |-> "KeyError", cells |-> {}]
              ELSE [err |-> "ok", cells |-> labeled_cells[parent]]

\* A pool that is empty for a parent that is no label, instead of a KeyError.
CellsAvailableLenient(self, graph, override, parent) ==
  LET labeled_cells == CellsToLabel(self)
      cells_of(l) == IF l \in DOMAIN labeled_cells THEN labeled_cells[l] ELSE {}
  IN IF override
       THEN IF parent \notin Nodes(graph)
              THEN [err |-> "NetworkXError", cells |-> {}]
              ELSE [err |-> "ok",
                    cells |-> UNION {cells_of(d) :
                                       d \in {parent} \cup Descendants(graph, parent)}]
       ELSE [err |-> "ok", cells |-> cells_of(parent)]

\* gate_label_type, lines 396-405: the pool the gate may draw from.  The
\* outcome is the exception of a lookup that fails, else the pool.
CellsAvailable(self, graph, override, parent) ==
  LET labeled_cells == CellsToLabel(self)
  IN IF override
       THEN IF parent \notin Nodes(graph)
              THEN [err |-> "NetworkXError", cells |-> {}]
              ELSE LET descendants == {parent} \cup Descendants(graph, parent)
                   IN IF \E d \in descendants : d \notin DOMAIN labeled_cells
                        THEN [err |-> "KeyError", cells |-> {}]
                        ELSE [err |-> "ok",
                              cells |-> UNION {labeled_cells[d] : d \in descendants}]
       ELSE IF parent \notin DOMAIN labeled_cells
              THEN [err |-> "KeyError", cells |-> {}]
              ELSE [err |-> "ok", cells |-> labeled_cells[parent]]
\* A write at every gated cell, in the pool or not.
GateObsAllGated(self, cells_gated, cells_available, label_id) ==
  [c \in self.cells |-> IF c \in cells_gated THEN label_id ELSE self.obs[c]]

\* gate_label_type, lines 407 and 444-448: the copy of Layers.OBS with label_id
\* written at the gated cells of the pool.
GateObs(self, cells_gated, cells_available, label_id) ==
  LET cells_selected == {c \in cells_gated : c \in cells_available}
  IN [c \in self.cells |-> IF c \in cells_selected THEN label_id ELSE self.obs[c]]

\* gate_label_type, lines 451-462: the node of the gate and the edge from parent.
GateGraph(graph, label_id, label_name, channel, threshold, intensity_key, override, step, num_cells, parent) ==
  AddEdge(AddNode(graph, label_id,
                  [label_id |-> label_id, label_name |-> label_name,
                   channel |-> channel, threshold |-> threshold,
                   intensity_key |-> intensity_key, override |-> override,
                   step |-> step, num_cells |-> num_cells]),
          parent, label_id)
\* A gate that records the number of cells it assigned.
GateResolvedCountsSelected(self, label_id, channel, threshold, intensity_key, override, parent) ==
  LET label_names == LabelToDict(self)
      graph == GetGateGraph(self)
      step == NextStep(graph)
      cells_gated == CellsGated(self, channel, threshold, intensity_key)
      available == CellsAvailable(self, graph, override, parent)
  IN IF available.err # "ok" THEN Raise(available.err, self)
     ELSE LET g == GateGraph(graph, label_id, label_names[label_id], channel,
                             threshold, intensity_key, override, step,
                             Cardinality(cells_gated \cap available.cells), parent)
          IN Return([self EXCEPT
                       !.obs = GateObs(self, cells_gated, available.cells, label_id),
                       !.attrs = SaveGraph(self.attrs, g)],
                    self)

\* A gate that saves the graph in the attrs of the container it was called on.
GateResolvedSharedAttrs(self, label_id, channel, threshold, intensity_key, override, parent) ==
  LET label_names == LabelToDict(self)
      graph == GetGateGraph(self)
      step == NextStep(graph)
      cells_gated == CellsGated(self, channel, threshold, intensity_key)
      available == CellsAvailable(self, graph, override, parent)
  IN IF available.err # "ok" THEN Raise(available.err, self)
     ELSE LET g == GateGraph(graph, label_id, label_names[label_id], channel,
                             threshold, intensity_key, override, step,
                             Cardinality(cells_gated), parent)
          IN Return([self EXCEPT
                       !.obs = GateObs(self, cells_gated, available.cells, label_id),
                       !.attrs = SaveGraph(self.attrs, g)],
                    [self EXCEPT !.attrs = SaveGraph(self.attrs, g)])

\* gate_label_type, lines 384-503, once label_id and parent are ids.
GateResolved(self, label_id, channel, threshold, intensity_key, override, parent) ==
  LET label_names == LabelToDict(self)
      graph == GetGateGraph(self)
      step == NextStep(graph)
      cells_gated == CellsGated(self, channel, threshold, intensity_key)
      available == CellsAvailable(self, graph, override, parent)
  IN IF available.err # "ok" THEN Raise(available.err, self)
     ELSE LET g == GateGraph(graph, label_id, label_names[label_id], channel,
                             threshold, intensity_key, override, step,
                             Cardinality(cells_gated), parent)
          IN Return([self EXCEPT
                       !.obs = GateObs(self, cells_gated, available.cells, label_id),
                       !.attrs = SaveGraph(self.attrs, g)],
                    self)

\* gate_label_type(label_id, channel, threshold, intensity_key, override, parent)
GateLabelType(self, label_id, channel, threshold, intensity_key, override, parent) ==
  IF ~HasNames(self) THEN Raise("KeyError", self)
  ELSE
    LET labels == LabelIds(self)
        label_names_reverse == LabelToDictReverse(self)
    IN IF label_id.kind = "str" /\ label_id.v \notin DOMAIN label_names_reverse
         THEN Raise("NotFound", self)
       ELSE IF parent.kind = "str" /\ parent.v \notin DOMAIN label_names_reverse
         THEN Raise("NotFound", self)
       ELSE
         LET lid == IF label_id.kind = "str"
                      THEN label_names_reverse[label_id.v] ELSE label_id.v
             par == IF parent.kind = "str"
                      THEN label_names_reverse[parent.v] ELSE parent.v
         IN IF lid \notin labels THEN Raise("NotFound", self)
            ELSE GateResolved(self, lid, channel, threshold, intensity_key,
                              override, par)


----------------------------------------------------------------------------
\* remove_label_type, line 293: `obs_labels == cell_type`, the comparison of
\* the Features.LABELS column (one entry per cell, in coordinate order) with
\* the LIST cell_type.  numpy broadcasts: a list of one id is compared with
\* every cell, a list as long as the column is compared entry by entry, and
\* any other length is an error.
EqCellType(self, cell_type) ==
  LET n == Cardinality(self.cells)
      k == Len(cell_type)
      pos(c) == Cardinality({d \in self.cells : d <= c})
  IN IF k = 1
       THEN [err |-> "ok", cells |-> {c \in self.cells : self.obs[c] = cell_type[1]}]
     ELSE IF k = n
       THEN [err |-> "ok",
             cells |-> {c \in self.cells : self.obs[c] = cell_type[pos(c)]}]
     ELSE IF n = 1
       THEN [err |-> "IndexError", cells |-> {}]
     ELSE [err |-> "ValueError", cells |-> {}]
\* A removal that resets the cells of the first id before it looks the
\* other ids up.
RemoveLabelTypeEager(self, arg) ==
  LET cell_type == IF arg.kind = "int" THEN <<arg.v>> ELSE arg.v
      first == [self EXCEPT !.obs =
                  [c \in self.cells |->
                     IF self.obs[c] = cell_type[1] THEN 0 ELSE self.obs[c]]]
  IN IF ~self.hasLabels THEN Raise("ValueError", self)
     ELSE IF cell_type[1] \notin LabelIds(self) THEN Raise("NotFound", self)
     ELSE IF \E i \in 1..Len(cell_type) : cell_type[i] \notin LabelIds(self)
       THEN Raise("NotFound", first)
     ELSE
       LET eq == EqCellType(self, cell_type)
       IN IF eq.err # "ok" THEN Raise(eq.err, self)
          ELSE
            LET written == [self EXCEPT !.obs =
                              [c \in self.cells |->
                                 IF c \in eq.cells THEN 0 ELSE self.obs[c]]]
                keep(r) == r.id \notin SeqToSet(cell_type)
            IN Return([written EXCEPT !.labels = SelectSeq(@, keep)], written)

\* A removal that also takes the nodes of the removed labels out of the
\* persisted graph.
RemoveLabelTypePruning(self, arg) ==
  LET cell_type == IF arg.kind = "int" THEN <<arg.v>> ELSE arg.v
  IN IF ~self.hasLabels THEN Raise("ValueError", self)
     ELSE IF \E i \in 1..Len(cell_type) : cell_type[i] \notin LabelIds(self)
       THEN Raise("NotFound", self)
     ELSE
       LET eq == EqCellType(self, cell_type)
       IN IF eq.err # "ok" THEN Raise(eq.err, self)
          ELSE
            LET written == [self EXCEPT !.obs =
                              [c \in self.cells |->
                                 IF c \in eq.cells THEN 0 ELSE self.obs[c]]]
                keep(r) == r.id \notin SeqToSet(cell_type)
                gone == SeqToSet(cell_type)
                pruned == [k \in DOMAIN self.attrs |->
                             IF k = "graph"
                               THEN [n \in DOMAIN self.attrs[k] \ gone |->
                                       self.attrs[k][n] \ gone]
                               ELSE [n \in DOMAIN self.attrs[k] \ gone |->
                                       self.attrs[k][n]]]
            IN Return([written EXCEPT !.labels = SelectSeq(@, keep),
                                      !.attrs = pruned], written)

\* remove_label_type(cell_type): the cells of the comparison are set to 0 in
\* the container itself (line 296), the container returned is the selection
\* of the labels that are not in cell_type (line 298).
RemoveLabelType(self, arg) ==
  LET cell_type == IF arg.kind = "int" THEN <<arg.v>> ELSE arg.v
  IN IF ~self.hasLabels THEN Raise("ValueError", self)
     ELSE IF \E i \in 1..Len(cell_type) : cell_type[i] \notin LabelIds(self)
       THEN Raise("NotFound", self)
     ELSE
       LET eq == EqCellType(self, cell_type)
       IN IF eq.err # "ok" THEN Raise(eq.err, self)
          ELSE
            LET written == [self EXCEPT !.obs =
                              [c \in self.cells |->
                                 IF c \in eq.cells THEN 0 ELSE self.obs[c]]]
                keep(r) == r.id \notin SeqToSet(cell_type)
            IN Return([written EXCEPT !.labels = SelectSeq(@, keep)], written)

----------------------------------------------------------------------------
\* A selection of labels that leaves the cells as they are.
SelLabelsOnly(self, sel, cells) ==
  IF \E i \in 1..Len(sel) : sel[i] \notin LabelIds(self)
    THEN Raise("KeyError", self)
    ELSE LET names == LabelToDict(self)
         IN Return([self EXCEPT
                      !.labels = [i \in 1..Len(sel) |->
                                    [id |-> sel[i], name |-> names[sel[i]]]]],
                   self)

\* self._obj.sel({Dims.LABELS: sel, Dims.CELLS: cells}): the sub-container
\* with the labels of sel, in the order of sel, and the given cells.  A label
\* of sel that is no coordinate is a KeyError.
SelLabelsCells(self, sel, cells) ==
  IF \E i \in 1..Len(sel) : sel[i] \notin LabelIds(self)
    THEN Raise("KeyError", self)
    ELSE LET names == LabelToDict(self)
         IN Return([self EXCEPT
                      !.labels = [i \in 1..Len(sel) |->
                                    [id |-> sel[i], name |-> names[sel[i]]]],
                      !.cells = cells,
                      !.obs = [c \in cells |-> self.obs[c]]],
                   self)

\* [i for i in range(start, stop)]
RangeList(start, stop) ==
  IF stop <= start THEN <<>> ELSE [i \in 1..(stop - start) |-> start + i - 1]

\* The slice both __getitem__ and deselect read: start defaults to 1, stop to
\* the NUMBER of labels, self._obj.dims[Dims.LABELS].
SliceList(self, slice) ==
  RangeList(IF slice.start.kind = "none" THEN 1 ELSE slice.start.v,
            IF slice.stop.kind = "none" THEN Len(self.labels) ELSE slice.stop.v)

\* __getitem__, lines 190-208: the ids of a list of ints and names, or the
\* error of the first element that is not a label.
RECURSIVE GetItemList(_, _, _)
GetItemList(self, indices, sel) ==
  IF indices = <<>> THEN [err |-> "ok", sel |-> sel]
  ELSE LET i == Head(indices)
           label_dict == LabelToDictReverse(self)
       IN IF i.kind = "str"
            THEN IF ~HasNames(self) THEN [err |-> "KeyError", sel |-> sel]
                 ELSE IF i.v \notin DOMAIN label_dict
                   THEN [err |-> "NotFound", sel |-> sel]
                   ELSE GetItemList(self, Tail(indices), Append(sel, label_dict[i.v]))
            ELSE IF i.v \notin LabelIds(self)
                   THEN [err |-> "NotFound", sel |-> sel]
                   ELSE GetItemList(self, Tail(indices), Append(sel, i.v))

\* __getitem__(indices): select labels by id, name, slice or list.
GetItem(self, indices) ==
  IF indices.kind = "float" THEN Raise("TypeError", self)
  ELSE IF indices.kind \in {"list", "tuple"}
          /\ \E i \in 1..Len(indices.v) : indices.v[i].kind \notin {"int", "str"}
    THEN Raise("TypeError", self)
  ELSE IF ~self.hasLabels THEN Raise("KeyError", self)
  ELSE
    LET r == CASE indices.kind = "int" ->
                    IF indices.v \notin LabelIds(self)
                      THEN [err |-> "NotFound", sel |-> <<>>]
                      ELSE [err |-> "ok", sel |-> <<indices.v>>]
               [] indices.kind = "str" ->
                    IF ~HasNames(self) THEN [err |-> "KeyError", sel |-> <<>>]
                    ELSE IF indices.v \notin DOMAIN LabelToDictReverse(self)
                      THEN [err |-> "NotFound", sel |-> <<>>]
                      ELSE [err |-> "ok", sel |-> <<LabelToDictReverse(self)[indices.v]>>]
               [] indices.kind = "slice" ->
                    [err |-> "ok", sel |-> SliceList(self, indices)]
               [] indices.kind \in {"list", "tuple"} ->
                    GetItemList(self, indices.v, <<>>)
    IN IF r.err # "ok" THEN Raise(r.err, self)
       ELSE SelLabelsCells(self, r.sel, FilterCellsByLabel(self, SeqToSet(r.sel)))

\* deselect(indices): the labels of 1..number-of-labels that are not in the
\* selection.  The elements of a list are compared as they are: a name in it
\* equals no id.
Deselect(self, indices) ==
  IF indices.kind \notin {"slice", "list", "tuple", "int"}
    THEN Raise("AssertionError", self)
  ELSE IF indices.kind = "list"
          /\ \E i \in 1..Len(indices.v) : indices.v[i].kind \notin {"int", "str"}
    THEN Raise("AssertionError", self)
  ELSE IF indices.kind = "tuple"
          /\ \E i \in 1..Len(indices.v) : indices.v[i].kind # "int"
    THEN Raise("AssertionError", self)
  ELSE IF ~self.hasLabels THEN Raise("KeyError", self)
  ELSE
    LET sel == CASE indices.kind = "slice" -> SeqToSet(SliceList(self, indices))
                 [] indices.kind = "int" -> {indices.v}
                 [] OTHER -> {indices.v[i].v : i \in {i \in 1..Len(indices.v) :
                                                       indices.v[i].kind = "int"}}
        total_labels == Len(self.labels) + 1
        all == RangeList(1, total_labels)
        keep(i) == i \notin sel
        inv_sel == SelectSeq(all, keep)
    IN SelLabelsCells(self, inv_sel, FilterCellsByLabel(self, SeqToSet(inv_sel)))

----------------------------------------------------------------------------
\* skimage's relabel_sequential: the positive values become 1..k in order.
RelabelSequential(a) ==
  [i \in DOMAIN a |->
     IF a[i] = 0 THEN 0
     ELSE Cardinality({v \in SeqToSet(a) : 0 < v /\ v <= a[i]})]

\* _format_labels(labels)
FormatLabels(labels) ==
  LET unique_labels == SeqToSet(labels)
      shifted == IF 0 \in unique_labels
                   THEN [i \in DOMAIN labels |-> labels[i] + 1]
                   ELSE labels
      diff_is_one == \A u \in unique_labels :
                       u = Max(unique_labels) \/ u + 1 \in unique_labels
  IN IF ~diff_is_one THEN RelabelSequential(shifted) ELSE shifted

\* add_label_property(array, prop): one entry of array per label found in the
\* Features.LABELS column.  A second property is concatenated to the first;
\* a property the layer has already cannot be aligned.
AddLabelProperty(self, array, prop) ==
  LET unique_labels == {self.obs[c] : c \in self.cells}
      order == [i \in 1..Cardinality(unique_labels) |->
                  CHOOSE u \in unique_labels :
                    Cardinality({w \in unique_labels : w <= u}) = i]
  IN IF Len(array) # Cardinality(unique_labels) THEN Raise("ValueError", self)
     ELSE IF prop = "_color"
       THEN IF self.hasLabels THEN Raise("ValueError", self)
            ELSE Return([self EXCEPT !.hasLabels = TRUE, !.hasNameProp = FALSE,
                                     !.labels = [i \in DOMAIN order |->
                                                   [id |-> order[i], name |-> None]]],
                        self)
     ELSE IF self.hasNameProp \/ LabelCoords(self) # order
       THEN Raise("ValueError", self)
     ELSE Return([self EXCEPT !.hasNameProp = TRUE,
                              !.labels = [i \in DOMAIN order |->
                                            [id |-> order[i], name |-> array[i]]]],
                 self)

\* "Cell type 1", "Cell type 2", ...: the names when none are given.
CellTypeNames(k) ==
  [i \in 1..k |-> CASE i = 1 -> "Cell type 1" [] i = 2 -> "Cell type 2"
                    [] i = 3 -> "Cell type 3" [] OTHER -> "Cell type 4"]

\* add_label_types_from_dataframe(df, colors=..., names=...).  df is the list
\* of its (cell, label) rows.  The accessor's container is rebound at lines
\* 551, 558 and 565, so a call that raises after one of them leaves the
\* accessor with the container built so far.  Features.ORIGINAL_LABELS, read
\* when the labels had to be reformatted, is no attribute of Features.
AddLabelTypesFromDataframe(self, df, colors, names) ==
  LET cells == [i \in DOMAIN df |-> df[i].cell]
      labels == [i \in DOMAIN df |-> df[i].label]
      formated_labels == FormatLabels(labels)
      unique_labels == SeqToSet(formated_labels)
      kept == {i \in DOMAIN df : cells[i] \in self.cells}
      da == [c \in {cells[i] : i \in kept} |->
               formated_labels[CHOOSE i \in kept : cells[i] = c]]
  IN IF formated_labels # labels THEN Raise("AttributeError", self)
     ELSE IF self.hasLabelFeature /\ \E c \in DOMAIN da : self.obs[c] # da[c]
       THEN Raise("MergeError", self)
     ELSE
       LET merged == [self EXCEPT !.cells = DOMAIN da, !.obs = da,
                                  !.hasLabelFeature = TRUE]
       IN IF colors.kind # "none" /\ Len(colors.v) # Cardinality(unique_labels)
            THEN Raise("AssertionError", merged)
          ELSE
            LET colored == AddLabelProperty(
                             merged,
                             IF colors.kind = "none"
                               THEN [i \in 1..Cardinality(unique_labels) |-> "#FFFF00"]
                               ELSE colors.v,
                             "_color")
            IN IF colored.err # "ok" THEN Raise(colored.err, merged)
               ELSE IF names.kind # "none" /\ Len(names.v) # Cardinality(unique_labels)
                 THEN Raise("AssertionError", colored.ret)
               ELSE
                 LET named == AddLabelProperty(
                                colored.ret,
                                IF names.kind = "none"
                                  THEN CellTypeNames(Cardinality(unique_labels))
                                  ELSE names.v,
                                "_name")
                 IN IF named.err # "ok" THEN Raise(named.err, colored.ret)
                    ELSE Return(named.ret, named.ret)

----------------------------------------------------------------------------
\* The calls of a run and the arguments they are made with.

\* The sequences over S without a repeated element, of lengths 1..n.
Lists(S, n) ==
  {l \in UNION {[1..k -> S] : k \in 1..n} :
     \A i, j \in DOMAIN l : i # j => l[i] # l[j]}

LabelArgs == {IntArg(i) : i \in 0..MaxLabels} \cup {StrArg(n) : n \in Names}

RemoveArgs ==
  {IntArg(i) : i \in 1..MaxLabels}
    \cup {ListArg(l) : l \in Lists(1..MaxLabels, MaxLabels)}

SliceArgs ==
  {SliceArg(start, stop) :
     start \in {NoneArg} \cup {IntArg(i) : i \in 1..MaxLabels},
     stop \in {NoneArg} \cup {IntArg(i) : i \in 1..(MaxLabels + 1)}}

GetItemArgs ==
  {IntArg(i) : i \in 0..MaxLabels} \cup {StrArg(n) : n \in Names}
    \cup {FloatArg} \cup SliceArgs
    \cup {ListArg(l) :
            l \in Lists({IntArg(i) : i \in 1..MaxLabels}
                          \cup {StrArg(n) : n \in Names}, 2)}
    \cup {ListArg(<<IntArg(1), FloatArg>>), TupleArg(<<IntArg(1), FloatArg>>)}
    \cup {TupleArg(<<IntArg(i)>>) : i \in 1..MaxLabels}

DeselectArgs ==
  {IntArg(i) : i \in 1..MaxLabels} \cup {StrArg(n) : n \in Names}
    \cup SliceArgs
    \cup {ListArg(l) : l \in Lists({IntArg(i) : i \in 1..MaxLabels}, 2)}
    \cup {ListArg(<<StrArg(n)>>) : n \in Names}
    \cup {TupleArg(<<IntArg(i)>>) : i \in 1..MaxLabels}

\* The dataframes of add_label_types_from_dataframe, as the list of their
\* (cell, label) rows in the order of the cells: one row for every cell of the
\* segmentation, or no row for cell 1 and a row for a cell that the
\* segmentation lacks.
RawLabels == {0, 1, 2}

Dataframes ==
  LET row(D, f, i) ==
        LET c == CHOOSE d \in D : Cardinality({e \in D : e <= d}) = i
        IN [cell |-> c, label |-> f[c]]
  IN UNION {{[i \in 1..Cardinality(D) |-> row(D, f, i)] : f \in [D -> RawLabels]} :
              D \in {Cells, (Cells \ {1}) \cup {NumCells + 1}}}

\* colors and names: left out, or a list of two.
ColorArgs == {NoneArg, ListArg(<<"w", "k">>)}

NameArgs == {NoneArg, ListArg(<<"T cells", "B cells">>)}

\* The container a call leaves for the next call of the chain.
Chain(r) == IF r.err = "ok" THEN r.ret ELSE r.self

\* The id an int-or-name argument stands for in the container (gate_label_type,
\* lines 368-379), for a name that is a key of the reversed name dictionary.
Resolved(self, arg) ==
  IF arg.kind = "str" THEN LabelToDictReverse(self)[arg.v] ELSE arg.v

\* A call is one step of the run: the chain goes on with the container the
\* call leaves, `last` records the call (rec), or that it raised.  A call that
\* raises and leaves the accessor's container as it was changes nothing.
Raised == [op |-> "raised", err |-> "raised"]

Call(r, rec) ==
  /\ calls < MaxCalls
  /\ IF r.err # "ok" /\ r.self = obj
       THEN UNCHANGED vars
       ELSE /\ obj' = Chain(r)
            /\ last' = IF r.err = "ok" THEN rec ELSE Raised
            /\ calls' = calls + 1

Init ==
  /\ obj = [cells |-> Cells, intensity |-> IntensityTable, hasLabels |-> FALSE,
            hasNameProp |-> FALSE, hasLabelFeature |-> FALSE, labels |-> <<>>,
            obs |-> [c \in Cells |-> 0], attrs |-> [k \in {} |-> None]]
  /\ last = [op |-> "init", err |-> "ok"]
  /\ calls = 0

Add ==
  \E name \in Names :
    LET r == AddLabelType(obj, name)
    IN /\ r.err = "ok" => \A i \in LabelIds(r.ret) : i <= MaxLabels
       /\ Call(r, [op |-> "add", err |-> "ok", name |-> name])

BulkAdd ==
  \E df \in Dataframes, colors \in ColorArgs, names \in NameArgs :
    Call(AddLabelTypesFromDataframe(obj, df, colors, names),
         [op |-> "bulk_add", err |-> "ok"])

Gate ==
  \E label_id \in LabelArgs, parent \in LabelArgs, channel \in Channels,
     threshold \in Thresholds, intensity_key \in IntensityKeys,
     override \in BOOLEAN :
    LET r == GateLabelType(obj, label_id, channel, threshold, intensity_key,
                           override, parent)
    IN Call(r, IF r.err = "ok"
                 THEN [op |-> "gate", err |-> "ok",
                       label_id |-> Resolved(obj, label_id),
                       parent |-> Resolved(obj, parent), channel |-> channel,
                       threshold |-> threshold, override |-> override]
                 ELSE Raised)

Remove ==
  \E cell_type \in RemoveArgs :
    Call(RemoveLabelType(obj, cell_type),
         [op |-> "remove", err |-> "ok",
          cell_type |-> IF cell_type.kind = "int"
                          THEN <<cell_type.v>> ELSE cell_type.v])

Select ==
  \E indices \in GetItemArgs :
    Call(GetItem(obj, indices), [op |-> "select", err |-> "ok"])

DeselectCall ==
  \E indices \in DeselectArgs :
    Call(Deselect(obj, indices), [op |-> "deselect", err |-> "ok"])

\* get_gate_graph called on the accessor, with and without pop.
Load ==
  \E pop \in BOOLEAN :
    LET r == GetGateGraphPop(obj, pop)
    IN /\ calls < MaxCalls
       /\ obj' = r.self
       /\ last' = [op |-> "load", err |-> "ok", pop |-> pop]
       /\ calls' = calls + 1

\* Label selection, labelling, gating and removal.
Next == Add \/ Gate \/ Remove \/ Select \/ DeselectCall

Spec == Init /\ [][Next]_vars

\* The same calls without the selections: add, gate and remove.
NextAGR == Add \/ Gate \/ Remove

SpecAGR == Init /\ [][NextAGR]_vars

\* add and gate alone.
NextAG == Add \/ Gate

SpecAG == Init /\ [][NextAG]_vars

\* add, bulk_add, gate and remove.
NextBulk == Add \/ BulkAdd \/ Gate \/ Remove

SpecBulk == Init /\ [][NextBulk]_vars

\* An attribute of the dataset that is no part of the gating graph: a
\* dictionary with a key that is no node.
OtherAttrs == ("scale" :> (-1 :> 1))

\* A container that comes with or without such an attribute.
InitAttrs ==
  /\ \E attrs \in {[k \in {} |-> None], OtherAttrs} :
       obj = [cells |-> Cells, intensity |-> IntensityTable,
              hasLabels |-> FALSE, hasNameProp |-> FALSE,
              hasLabelFeature |-> FALSE, labels |-> <<>>,
              obs |-> [c \in Cells |-> 0], attrs |-> attrs]
  /\ last = [op |-> "init", err |-> "ok"]
  /\ calls = 0

\* add, gate and loading the graph.
NextLoad == Add \/ Gate \/ Load

SpecLoad == InitAttrs /\ [][NextLoad]_vars

\* The non-empty vectors of non-negative raw labels.
RawVectors ==
  UNION {[1..n -> 0..MaxRawLabel] : n \in 1..MaxVectorLen}

\* _format_labels called on a raw vector: `last` records the vector after the
\* call (the function works on labels.copy()) and the vector returned.
Format ==
  \E labels \in RawVectors :
    /\ last' = [op |-> "format", err |-> "ok", labels |-> labels,
                formatted |-> FormatLabels(labels)]
    /\ UNCHANGED <<obj, calls>>

\* The label normalization alone.
NextFormat == Format

SpecFormat == Init /\ [][NextFormat]_vars

----------------------------------------------------------------------------
\* What the claims speak of.

\* cells_for(l): the cells assigned l.
CellsFor(self, l) == {c \in self.cells : self.obs[c] = l}

\* The step is a successful gate call (every call that returns is counted).
GateStep == calls' = calls + 1 /\ last'.op = "gate"

RemoveStep == calls' = calls + 1 /\ last'.op = "remove"

InDegree(g, n) == Cardinality({e \in Edges(g) : e[2] = n})

\* The steps that the persisted node attributes record.
PersistedSteps(self) ==
  IF "step" \in DOMAIN self.attrs
    THEN {self.attrs["step"][n] : n \in DOMAIN self.attrs["step"]}
    ELSE {0}

----------------------------------------------------------------------------
\* C1: a successful gate(L, channel, t, key, override, P) assigns L to exactly
\* the cells whose intensity on the channel is strictly above t and that are
\* in the pool - the cells assigned P, with override also those assigned to a
\* descendant of P - and leaves the assignment of every other cell, and the
\* cell index, as they were.
C1_GateWritesSelectedCells ==
  [][GateStep =>
       LET L == last'.label_id
           P == last'.parent
           gated(c) == obj.intensity[last'.channel][c] > last'.threshold
           pool(c) == IF last'.override
                        THEN obj.obs[c] \in {P} \cup Descendants(GetGateGraph(obj), P)
                        ELSE obj.obs[c] = P
       IN /\ obj'.cells = obj.cells
          /\ \A c \in obj.cells :
               obj'.obs[c] = IF gated(c) /\ pool(c) THEN L ELSE obj.obs[c]]_vars

\* A gate without override has assigned its label to a cell, and a cell of the
\* pool whose intensity equals the threshold has kept its assignment.
C1_Witness ==
  /\ last.op = "gate" /\ ~last.override
  /\ \E c \in obj.cells : obj.obs[c] = last.label_id
  /\ \E c \in obj.cells : /\ obj.intensity[last.channel][c] = last.threshold
                          /\ obj.obs[c] = last.parent
                          /\ last.parent # last.label_id

----------------------------------------------------------------------------
\* C2 as claimed: after a successful gate(L, override=False, parent=P) the
\* cells assigned L are a subset of the cells that were assigned P before.
C2_Original ==
  [][GateStep /\ ~last'.override =>
       CellsFor(obj', last'.label_id) \subseteq CellsFor(obj, last'.parent)]_vars

\* C2 as amended: after a successful gate(L, override=False, parent=P) every
\* cell assigned L was assigned P or already assigned L before the call.
C2_GateDrawsFromParent ==
  [][GateStep /\ ~last'.override =>
       CellsFor(obj', last'.label_id)
         \subseteq CellsFor(obj, last'.parent) \cup CellsFor(obj, last'.label_id)]_vars

\* A gate without override under a parent label has moved a cell of the
\* parent to its label while another label keeps a cell.
C2_Witness ==
  /\ last.op = "gate" /\ ~last.override
  /\ last.parent # 0 /\ last.parent # last.label_id
  /\ CellsFor(obj, last.label_id) # {}
  /\ \E c \in obj.cells : obj.obs[c] \notin {0, last.label_id}

----------------------------------------------------------------------------
\* C3 as claimed: after a successful gate(L, override=True, parent=P) the
\* cells assigned L are a subset of the cells that were assigned, before the
\* call, to P or to a descendant of P in the graph as it was before the call.
C3_Original ==
  [][GateStep /\ last'.override =>
       CellsFor(obj', last'.label_id)
         \subseteq UNION {CellsFor(obj, d) :
                            d \in {last'.parent}
                                    \cup Descendants(GetGateGraph(obj), last'.parent)}]_vars

\* C3 as amended: ... or was already assigned L before the call.
C3_OverrideDrawsFromSubtree ==
  [][GateStep /\ last'.override =>
       CellsFor(obj', last'.label_id)
         \subseteq CellsFor(obj, last'.label_id)
                     \cup UNION {CellsFor(obj, d) :
                                   d \in {last'.parent}
                                           \cup Descendants(GetGateGraph(obj),
                                                            last'.parent)}]_vars

\* An overriding gate under the root has taken a cell although no cell is
\* unlabeled any more, so the cell came from a descendant.
C3_Witness ==
  /\ last.op = "gate" /\ last.override /\ last.parent = 0
  /\ CellsFor(obj, last.label_id) # {}
  /\ \E c \in obj.cells : obj.obs[c] \notin {0, last.label_id}
  /\ \E n \in Nodes(GetGateGraph(obj)) : n \notin {0, last.label_id}

----------------------------------------------------------------------------
\* C4 as claimed: in every reachable state the gating graph is a tree rooted
\* at node 0 - node 0 is the only node without an incoming edge and every
\* other node has exactly one incoming edge.
C4_Original ==
  LET g == GetGateGraph(obj)
  IN /\ {n \in Nodes(g) : InDegree(g, n) = 0} = {0}
     /\ \A n \in Nodes(g) \ {0} : InDegree(g, n) = 1

----------------------------------------------------------------------------
\* A node lies on a cycle when it is reachable from one of its successors.
OnCycle(g, n) == n \in ReachFrom(g.adj, g.adj[n], g.adj[n])

\* C5 as claimed: after any sequence of successful gates the gating graph has
\* no cycle and no self-loop: no node is reachable from itself.
C5_Original ==
  LET g == GetGateGraph(obj)
  IN \A n \in Nodes(g) : ~OnCycle(g, n)

----------------------------------------------------------------------------
\* C6 as claimed: a successful gate(L, parent=P) adds exactly one node, L, and
\* exactly one edge, from P to L, to the gating graph.
C6_Original ==
  [][GateStep =>
       LET g == GetGateGraph(obj)
           h == GetGateGraph(obj')
       IN /\ Nodes(h) \ Nodes(g) = {last'.label_id}
          /\ Nodes(g) \subseteq Nodes(h)
          /\ Edges(h) \ Edges(g) = {<<last'.parent, last'.label_id>>}
          /\ Edges(g) \subseteq Edges(h)]_vars

----------------------------------------------------------------------------
\* C7: next_step is one more than the largest step of a node (the root has
\* step 0).  A successful gate gives its node that value as its step, and
\* next_step is greater by exactly one afterwards; a gate call that raises
\* leaves the steps, and so next_step, as they were.
C7_StepCounter ==
  [][/\ NextStep(GetGateGraph(obj)) = Max(PersistedSteps(obj)) + 1
     /\ NextStep(GetGateGraph(obj')) = Max(PersistedSteps(obj')) + 1
     /\ GateStep =>
          /\ obj'.attrs["step"][last'.label_id] = Max(PersistedSteps(obj)) + 1
          /\ Max(PersistedSteps(obj')) = Max(PersistedSteps(obj)) + 1
     /\ last'.op = "raised" => PersistedSteps(obj') = PersistedSteps(obj)]_vars

\* A third gate has got step 3 in a graph that has fewer than four nodes.
C7_Witness ==
  /\ last.op = "gate"
  /\ obj.attrs["step"][last.label_id] = 3
  /\ Cardinality(Nodes(GetGateGraph(obj))) < 4

----------------------------------------------------------------------------
\* C8 as claimed: in every reachable state every cell is assigned 0 or a
\* label id of the label registry.
C8_Original ==
  \A c \in obj.cells : obj.obs[c] = 0 \/ obj.obs[c] \in LabelIds(obj)

----------------------------------------------------------------------------
\* C9 as claimed: after every call of add, gate and remove every node of the
\* gating graph other than the root has a label id of the label registry.
C9_Original ==
  Nodes(GetGateGraph(obj)) \ {0} \subseteq LabelIds(obj)

\* C9 as amended: a call of add, gate or remove adds no node to the graph
\* whose label id is not in the registry; a node is without a registry entry
\* only from the call on that takes its label out of the registry.
C9_NodesOutliveLabels ==
  [][Nodes(GetGateGraph(obj')) \ ({0} \cup LabelIds(obj'))
       \subseteq (Nodes(GetGateGraph(obj)) \ LabelIds(obj))
                   \cup (LabelIds(obj) \ LabelIds(obj'))]_vars

\* A label that is a node of the graph has been removed and is a node still,
\* next to a node whose label is in the registry.
C9_Witness ==
  /\ last.op = "remove"
  /\ \E n \in Nodes(GetGateGraph(obj)) \ {0} :
       n \notin LabelIds(obj) /\ n \in SeqToSet(last.cell_type)
  /\ \E n \in Nodes(GetGateGraph(obj)) \ {0} : n \in LabelIds(obj)

----------------------------------------------------------------------------
\* C10: a successful remove(L) of a single label L that is a node of the
\* gating graph sets the cells assigned L to 0 and leaves every other cell,
\* takes L and nothing else out of the registry, and leaves the persisted
\* graph - nodes, edges and node attributes - as it was.
C10_RemoveKeepsGraph ==
  [][RemoveStep /\ Len(last'.cell_type) = 1
       /\ last'.cell_type[1] \in Nodes(GetGateGraph(obj)) =>
       LET L == last'.cell_type[1]
       IN /\ \A c \in obj.cells :
               obj'.obs[c] = IF obj.obs[c] = L THEN 0 ELSE obj.obs[c]
          /\ obj'.cells = obj.cells
          /\ LabelIds(obj') = LabelIds(obj) \ {L}
          /\ obj'.attrs = obj.attrs
          /\ GetGateGraph(obj') = GetGateGraph(obj)]_vars

\* A gated label with an incoming edge has been removed: it is a node of the
\* graph and no label of the registry, and no cell is assigned to it.
C10_Witness ==
  /\ last.op = "remove" /\ Len(last.cell_type) = 1
  /\ last.cell_type[1] \notin LabelIds(obj)
  /\ LET g == GetGateGraph(obj)
     IN /\ last.cell_type[1] \in Nodes(g)
        /\ InDegree(g, last.cell_type[1]) = 1
        /\ g.attr[last.cell_type[1]].num_cells > 0
  /\ CellsFor(obj, last.cell_type[1]) = {}

----------------------------------------------------------------------------
\* The calls of gate_label_type a container can receive, and their outcomes.
GateArgs ==
  [label_id : LabelArgs, parent : LabelArgs, channel : Channels,
   threshold : Thresholds, intensity_key : IntensityKeys, override : BOOLEAN]

GateCall(self, a) ==
  GateLabelType(self, a.label_id, a.channel, a.threshold, a.intensity_key,
                a.override, a.parent)

\* An id or a name stands for a label of the registry.
Defined(self, arg) ==
  IF arg.kind = "int"
    THEN arg.v \in LabelIds(self)
    ELSE \E i \in 1..Len(self.labels) : self.labels[i].name = arg.v

\* C11 as claimed, on a container that has a label layer: a gate whose
\* label_id is no defined label, or whose parent is neither 0 nor a defined
\* label, raises the not-found error, with override and without.
C11_Original ==
  obj.hasLabels =>
    \A a \in GateArgs :
      (~Defined(obj, a.label_id)
         \/ ~(a.parent = IntArg(0) \/ Defined(obj, a.parent)))
        => GateCall(obj, a).err = "NotFound"

----------------------------------------------------------------------------
\* C12: a gate, remove or add call that raises leaves the container the
\* accessor holds - registry, assignment table, cells and persisted graph
\* attributes - exactly as it was before the call.
C12_FailureChangesNothing ==
  /\ \A a \in GateArgs :
       LET r == GateCall(obj, a) IN r.err # "ok" => r.self = obj
  /\ \A cell_type \in RemoveArgs :
       LET r == RemoveLabelType(obj, cell_type) IN r.err # "ok" => r.self = obj
  /\ \A name \in Names :
       LET r == AddLabelType(obj, name) IN r.err # "ok" => r.self = obj

\* A container with a persisted graph and an assigned cell on which a gate
\* raises in the lookup of its pool and a remove raises for a list whose
\* first id is defined and assigned to a cell.
C12_Witness ==
  /\ "graph" \in DOMAIN obj.attrs
  /\ \E a \in GateArgs : GateCall(obj, a).err \in {"KeyError", "NetworkXError"}
  /\ \E cell_type \in RemoveArgs :
       /\ cell_type.kind = "list" /\ cell_type.v[1] \in LabelIds(obj)
       /\ \E c \in obj.cells : obj.obs[c] = cell_type.v[1]
       /\ RemoveLabelType(obj, cell_type).err # "ok"

----------------------------------------------------------------------------
\* C13: a gate that returns leaves the container it was called on as it was -
\* assignment table, registry and persisted graph attributes; the change is
\* in the container returned.
C13_GateLeavesInput ==
  \A a \in GateArgs :
    LET r == GateCall(obj, a) IN r.err = "ok" => r.self = obj

\* A gate on a container with a persisted graph returns a container with
\* another assignment table and another graph.
C13_Witness ==
  /\ "graph" \in DOMAIN obj.attrs
  /\ \E a \in GateArgs :
       LET r == GateCall(obj, a)
       IN r.err = "ok" /\ r.ret.obs # obj.obs /\ r.ret.attrs # obj.attrs

----------------------------------------------------------------------------
\* C14 as claimed: a remove that returns leaves the container it was called
\* on as it was: the removed label is still in its registry and its cells are
\* still assigned to it.
C14_Original ==
  \A cell_type \in RemoveArgs :
    LET r == RemoveLabelType(obj, cell_type)
    IN r.err = "ok" => r.self.labels = obj.labels /\ r.self.obs = obj.obs

----------------------------------------------------------------------------
\* C15 as claimed: in every state reachable by add and remove, add returns,
\* and the one label it adds has the id max(existing ids) + 1, or 1 when the
\* registry holds no label.
C15_Original ==
  \A name \in Names :
    LET r == AddLabelType(obj, name)
    IN /\ r.err = "ok"
       /\ LabelIds(r.ret) \ LabelIds(obj)
            = {IF LabelIds(obj) = {} THEN 1 ELSE Max(LabelIds(obj)) + 1}

----------------------------------------------------------------------------
\* C16 as claimed, on a container that has a label layer: remove of a list of
\* defined ids returns a container in which the cells assigned to a listed id
\* are 0, every other cell is as it was and exactly the listed ids have left
\* the registry; a list with an id that is not defined raises not-found.
C16_Original ==
  obj.hasLabels =>
    \A arg \in {a \in RemoveArgs : a.kind = "list"} :
      LET r == RemoveLabelType(obj, arg)
          listed == SeqToSet(arg.v)
      IN IF listed \subseteq LabelIds(obj)
           THEN /\ r.err = "ok"
                /\ r.ret.cells = obj.cells
                /\ \A c \in obj.cells :
                     r.ret.obs[c] = IF obj.obs[c] \in listed THEN 0 ELSE obj.obs[c]
                /\ LabelIds(r.ret) = LabelIds(obj) \ listed
           ELSE r.err = "NotFound"

----------------------------------------------------------------------------
\* C17 as claimed: for every index x that select accepts, deselect(x)
\* returns the container whose labels are the defined labels that select(x)
\* does not match, with exactly the cells assigned to those labels.
C17_Original ==
  \A x \in GetItemArgs :
    LET s == GetItem(obj, x)
        d == Deselect(obj, x)
    IN s.err = "ok" =>
         /\ d.err = "ok"
         /\ LabelIds(d.ret) = LabelIds(obj) \ LabelIds(s.ret)
         /\ d.ret.cells = {c \in obj.cells : obj.obs[c] \in LabelIds(d.ret)}

----------------------------------------------------------------------------
\* The sets of label ids within 1..MaxLabels, as the lists that select and
\* deselect take.
IdLists == {ListArg(l) : l \in Lists({IntArg(i) : i \in 1..MaxLabels}, MaxLabels)}

----------------------------------------------------------------------------
\* The ids an int or a name may stand for.
ElementIds(self, e) ==
  IF e.kind = "int" THEN {e.v}
  ELSE {self.labels[i].id : i \in {i \in 1..Len(self.labels) :
                                     self.labels[i].name = e.v}}

\* m is a set of labels matched by x: the id, a label of the name, one label
\* for every element of a list, the ids start..stop-1 of a slice with both
\* ends (of a slice with an open end, some defined labels).
Matches(self, x, m) ==
  CASE x.kind \in {"int", "str"} ->
         \E id \in ElementIds(self, x) : m = {id}
    [] x.kind \in {"list", "tuple"} ->
         /\ \A i \in 1..Len(x.v) : m \cap ElementIds(self, x.v[i]) # {}
         /\ m \subseteq UNION {ElementIds(self, x.v[i]) : i \in 1..Len(x.v)}
         /\ Cardinality(m) <= Len(x.v)
    [] x.kind = "slice" ->
         IF x.start.kind = "int" /\ x.stop.kind = "int"
           THEN m = {i \in LabelIds(self) : x.start.v <= i /\ i < x.stop.v}
           ELSE m \subseteq LabelIds(self)

\* C19: a select(x) that returns gives a container whose registry is the
\* labels matched by x, with the names they had, whose cells are exactly the
\* cells assigned to one of those labels - cells assigned 0 or another label
\* are dropped - and in which every kept cell has the assignment it had.
C19_SelectNarrows ==
  \A x \in GetItemArgs :
    LET r == GetItem(obj, x)
    IN r.err = "ok" =>
         /\ Matches(obj, x, LabelIds(r.ret))
         /\ SeqToSet(r.ret.labels) \subseteq SeqToSet(obj.labels)
         /\ r.ret.cells = {c \in obj.cells : obj.obs[c] \in LabelIds(r.ret)}
         /\ \A c \in r.ret.cells : r.ret.obs[c] = obj.obs[c]

\* A select keeps a cell and drops a cell that is assigned to another label.
C19_Witness ==
  \E x \in GetItemArgs :
    LET r == GetItem(obj, x)
    IN /\ r.err = "ok"
       /\ r.ret.cells # {}
       /\ \E c \in obj.cells \ r.ret.cells : obj.obs[c] # 0

----------------------------------------------------------------------------
\* C20 as claimed: select raises a type error for a float and for a list or
\* tuple with an element that is neither int nor str, and otherwise raises
\* not-found for an int or a name, alone or in a list, that is no label of
\* the registry; in each case the container is unchanged.
C20_Original ==
  \A x \in GetItemArgs :
    LET r == GetItem(obj, x)
        elems == IF x.kind \in {"list", "tuple"}
                   THEN {x.v[i] : i \in 1..Len(x.v)} ELSE {x}
    IN IF x.kind = "float" \/ \E e \in elems : e.kind = "float"
         THEN r.err = "TypeError" /\ r.self = obj
       ELSE IF x.kind # "slice" /\ \E e \in elems : ~Defined(obj, e)
         THEN r.err = "NotFound" /\ r.self = obj
       ELSE TRUE

----------------------------------------------------------------------------
\* C21: the graph loaded from the attributes a gate persisted is the graph
\* the gate saved - the loaded graph with the node of the gate and the edge
\* from its parent: the same nodes, edges and node properties; the root has
\* label_id 0 and step 0.
C21_SaveLoadRoundTrip ==
  [][GateStep =>
       LET graph == GetGateGraph(obj)
           L == last'.label_id
           saved == GateGraph(graph, L, LabelToDict(obj)[L], last'.channel,
                              last'.threshold, "_intensity", last'.override,
                              Max(PersistedSteps(obj)) + 1,
                              Cardinality({c \in obj.cells :
                                             obj.intensity[last'.channel][c]
                                               > last'.threshold}),
                              last'.parent)
           loaded == GetGateGraph(obj')
       IN /\ Nodes(loaded) = Nodes(saved)
          /\ Edges(loaded) = Edges(saved)
          /\ loaded.attr = saved.attr
          /\ loaded.attr[0].label_id = 0 /\ loaded.attr[0].step = 0]_vars

\* A gate has persisted a graph of three nodes and two edges.
C21_Witness ==
  /\ last.op = "gate"
  /\ Cardinality(Nodes(GetGateGraph(obj))) = 3
  /\ Cardinality(Edges(GetGateGraph(obj))) = 2
  /\ \A n \in Nodes(GetGateGraph(obj)) :
       DOMAIN GetGateGraph(obj).attr[n] # {}

----------------------------------------------------------------------------
\* C22 as claimed, on a container that has a label layer: cells_for maps
\* every label of the registry, and 0, to the cells with that assignment, and
\* these sets are pairwise disjoint and cover the cell index.
C22_Original ==
  obj.hasLabels =>
    LET cells_for == CellsToLabel(obj)
    IN /\ DOMAIN cells_for = LabelIds(obj) \cup {0}
       /\ \A L \in DOMAIN cells_for :
            cells_for[L] = {c \in obj.cells : obj.obs[c] = L}
       /\ \A L, M \in DOMAIN cells_for :
            L # M => cells_for[L] \cap cells_for[M] = {}
       /\ UNION {cells_for[L] : L \in DOMAIN cells_for} = obj.cells

----------------------------------------------------------------------------
\* C23: the num_cells of the node of a gate is the number of cells whose
\* intensity is strictly above the threshold, whatever the parent, override
\* and the pool; it can exceed the number of cells the gate assigned.
C23_NumCellsIsGatedCount ==
  [][GateStep =>
       obj'.attrs["num_cells"][last'.label_id]
         = Cardinality({c \in obj.cells :
                          obj.intensity[last'.channel][c] > last'.threshold})]_vars

\* A gate has recorded more cells than are assigned to its label.
C23_Witness ==
  /\ last.op = "gate"
  /\ obj.attrs["num_cells"][last.label_id]
       > Cardinality(CellsFor(obj, last.label_id))

----------------------------------------------------------------------------
\* C24 as claimed: select by a name that labels of the registry carry
\* returns what select by the lowest id of that name returns.
C24_Original ==
  \A n \in Names :
    LET ids == ElementIds(obj, StrArg(n))
    IN obj.hasLabels /\ ids # {} =>
         LET first == CHOOSE i \in ids : \A j \in ids : i <= j
             by_name == GetItem(obj, StrArg(n))
             by_id == GetItem(obj, IntArg(first))
         IN by_name.err = "ok" /\ by_name.ret = by_id.ret

----------------------------------------------------------------------------
\* C25 as claimed: loading without consume leaves the attribute store as it
\* was; loading with consume removes exactly the graph entry and the entries
\* of the node properties and leaves every other attribute; without a
\* persisted graph the load returns the root-only graph and leaves the store.
C25_Original ==
  \A pop \in BOOLEAN :
    LET r == GetGateGraphPop(obj, pop)
        kept == DOMAIN obj.attrs \ ({"graph"} \cup GraphProps)
    IN IF "graph" \notin DOMAIN obj.attrs
         THEN /\ r.self.attrs = obj.attrs
              /\ Nodes(r.graph) = {0} /\ Edges(r.graph) = {}
         ELSE IF ~pop
                THEN r.self.attrs = obj.attrs
                ELSE /\ DOMAIN r.self.attrs = kept
                     /\ \A k \in kept : r.self.attrs[k] = obj.attrs[k]

----------------------------------------------------------------------------
\* C26 as claimed: for every defined label P, gated before or not, a gate of
\* a defined label L with override and parent P succeeds and assigns L to the
\* gated cells among those assigned to P or to a descendant of P.
C26_Original ==
  \A a \in GateArgs :
    (a.override /\ Defined(obj, a.label_id) /\ Defined(obj, a.parent)
       /\ Resolved(obj, a.label_id) # Resolved(obj, a.parent)) =>
      LET r == GateCall(obj, a)
          L == Resolved(obj, a.label_id)
          P == Resolved(obj, a.parent)
          graph == GetGateGraph(obj)
          below == IF P \in Nodes(graph) THEN Descendants(graph, P) ELSE {}
          pool == {c \in obj.cells : obj.obs[c] \in {P} \cup below}
      IN /\ r.err = "ok"
         /\ \A c \in obj.cells :
              r.ret.obs[c] = IF c \in pool
                                  /\ obj.intensity[a.channel][c] > a.threshold
                               THEN L ELSE obj.obs[c]

----------------------------------------------------------------------------
\* C29 as claimed, for parents that are nodes of the gating graph: after the
\* removal of a gated label, every gate of a defined label under the root or
\* under a defined label succeeds, with override and without.
C29_Original ==
  (/\ last.op = "remove"
   /\ \E i \in 1..Len(last.cell_type) :
        last.cell_type[i] \in Nodes(GetGateGraph(obj))) =>
    \A a \in GateArgs :
      (/\ Defined(obj, a.label_id)
       /\ a.parent = IntArg(0) \/ Defined(obj, a.parent)
       /\ Resolved(obj, a.parent) \in Nodes(GetGateGraph(obj)))
        => GateCall(obj, a).err = "ok"

----------------------------------------------------------------------------
\* C30 as claimed: the id that add allocates is the id of no node of the
\* gating graph.
C30_Original ==
  \A name \in Names :
    LET r == AddLabelType(obj, name)
    IN r.err = "ok" =>
         (LabelIds(r.ret) \ LabelIds(obj)) \cap Nodes(GetGateGraph(obj)) = {}

----------------------------------------------------------------------------
\* C27 as claimed: for a non-empty vector of non-negative raw labels
\* _format_labels returns a vector of the same length whose distinct values
\* are exactly 1..k, k the number of distinct raw labels, equal raw labels
\* mapped to equal values and the order of the raw labels preserved.
C27_Original ==
  last.op = "format" =>
    LET v == last.labels
        f == last.formatted
        k == Cardinality(SeqToSet(v))
    IN /\ Len(f) = Len(v)
       /\ SeqToSet(f) = 1..k
       /\ \A i, j \in DOMAIN v : /\ v[i] = v[j] <=> f[i] = f[j]
                                 /\ v[i] < v[j] <=> f[i] < f[j]

----------------------------------------------------------------------------
\* C28 as claimed: after a bulk_add that returns, and after one that fails on
\* the length of colors or names, the container the accessor works on has the
\* label registry, the assignment table and the cell index it had before.
C28_Original ==
  \A df \in Dataframes, colors \in ColorArgs, names \in NameArgs :
    LET r == AddLabelTypesFromDataframe(obj, df, colors, names)
    IN r.err \in {"ok", "AssertionError"} =>
         /\ r.self.labels = obj.labels
         /\ r.self.hasLabels = obj.hasLabels
         /\ r.self.obs = obj.obs
         /\ r.self.cells = obj.cells

====
